---- MODULE Spec2Model ----
(***************************************************************************)
(* Paginated view engine of the dataset inspector.                         *)
(*                                                                         *)
(* Two pages fetch bounded windows of a dataset from the Dataset Store:    *)
(*   - ViewData  (route /view-data/:filename): fetchData, handlePageChange *)
(*   - CleanData (route /clean-data): the "full data" modal with           *)
(*     fetchPaginatedData, handleFullDataPageChange and the modal effect.  *)
(* The router mounts one page at a time; `view` is the mounted page.       *)
(* Every fetch is asynchronous: issuing it and handling its response are   *)
(* two separate steps, and responses arrive in any order.                  *)
(***************************************************************************)
EXTENDS Integers, Sequences, FiniteSets, TLC

\* ---------------------------------------------------------------- bounds
MaxFetches == 4        \* page fetches issued in one run
PageSize == 2          \* rows per page of the modelled store

\* ------------------------------------------------------------- constants
NULL == "NULL"         \* JavaScript null / undefined

RawFile == "raw.csv"
CleanedFile == "cleaned_raw.csv"
Files == {RawFile, CleanedFile}

\* ------------------------------------------------------------ cell values
\* A cell is a number, a string or null.  Strings are sequences of
\* one-character strings; numbers are kept in thousandths (1 is 1000), so
\* that rounding to 2 decimals changes some of them.
Null == [t |-> "null", n |-> 0, s |-> << >>]
Milli(n) == [t |-> "num", n |-> n, s |-> << >>]
Num(k) == Milli(1000 * k)
Str(chars) == [t |-> "str", n |-> 0, s |-> chars]

Digits == << "0", "1", "2", "3", "4", "5", "6", "7", "8", "9" >>

\* Decimal digits of a natural number.
RECURSIVE NatToString(_)
NatToString(k) ==
  IF k < 10 THEN << Digits[k + 1] >>
  ELSE NatToString(k \div 10) \o << Digits[(k % 10) + 1] >>

\* String(value) of JavaScript: "null" for null, the shortest decimal form
\* for a number, the string itself for a string.
String(v) ==
  CASE v.t = "null" -> << "n", "u", "l", "l" >>
    [] v.t = "str"  -> v.s
    [] OTHER ->
         LET whole == NatToString(v.n \div 1000)
             frac == v.n % 1000
             d1 == Digits[(frac \div 100) + 1]
             d2 == Digits[((frac \div 10) % 10) + 1]
             d3 == Digits[(frac % 10) + 1]
         IN IF frac = 0 THEN whole
            ELSE IF frac % 100 = 0 THEN whole \o << ".", d1 >>
            ELSE IF frac % 10 = 0 THEN whole \o << ".", d1, d2 >>
            ELSE whole \o << ".", d1, d2, d3 >>

\* c.toLowerCase() for one character.
LowerChar(c) ==
  CASE c = "A" -> "a" [] c = "B" -> "b" [] c = "E" -> "e" [] c = "L" -> "l"
    [] c = "N" -> "n" [] c = "U" -> "u" [] OTHER -> c

\* c.toUpperCase() for one character.
UpperChar(c) ==
  CASE c = "a" -> "A" [] c = "b" -> "B" [] c = "e" -> "E" [] c = "l" -> "L"
    [] c = "n" -> "N" [] c = "u" -> "U" [] OTHER -> c

\* s.toUpperCase()
ToUpperCase(s) == [i \in 1..Len(s) |-> UpperChar(s[i])]

\* s.toLowerCase()
ToLowerCase(s) == [i \in 1..Len(s) |-> LowerChar(s[i])]

\* s.includes(q)
Includes(s, q) ==
  \E i \in 0..(Len(s) - Len(q)) : SubSeq(s, i + 1, i + Len(q)) = q

IsSpace(c) == c = " "

\* s.trim()
RECURSIVE Trim(_)
Trim(s) ==
  IF s = << >> THEN s
  ELSE IF IsSpace(s[1]) THEN Trim(Tail(s))
  ELSE IF IsSpace(s[Len(s)]) THEN Trim(SubSeq(s, 1, Len(s) - 1))
  ELSE s

\* ------------------------------------------------- Dataset Store (external)
\* Number of rows the store holds for each dataset: the cleaned dataset is
\* empty.
TotalRows(f) == IF f = RawFile THEN 5 ELSE 0

\* total_pages = ceil(total_rows / page_size), 1 for an empty dataset.
TotalPages(f) ==
  IF TotalRows(f) = 0 THEN 1 ELSE (TotalRows(f) + PageSize - 1) \div PageSize

Min(a, b) == IF a <= b THEN a ELSE b

\* The cells of row i of dataset f, in header order.
StoreCells(f, i) ==
  IF f = RawFile
  THEN << Num(i),
          CASE i = 1 -> Str(<< "A", "b" >>)
            [] i = 2 -> Null
            [] i = 3 -> Str(<< "n", "u" >>)
            [] i = 4 -> Str(<< >>)
            [] OTHER -> Str(<< "b" >>) >>
  ELSE << Num(i) >>

\* A row is identified by its dataset and its 1-based position in it, and
\* carries one cell per header.
RECURSIVE RowsFromTo(_, _, _)
RowsFromTo(f, lo, hi) ==
  IF lo > hi THEN << >>
  ELSE << [file |-> f, idx |-> lo, cells |-> StoreCells(f, lo)] >>
       \o RowsFromTo(f, lo + 1, hi)

\* result.data of GET view-data/<f>?page=<p>&page_size=<PageSize>
StoreRows(f, p) ==
  RowsFromTo(f, (p - 1) * PageSize + 1, Min(p * PageSize, TotalRows(f)))

\* result.headers
StoreHeaders(f) == IF f = RawFile THEN << "id", "city" >> ELSE << "id" >>

\* result.pagination
StorePagination(f, p) ==
  [current_page |-> p, total_pages |-> TotalPages(f),
   total_rows |-> TotalRows(f), page_size |-> PageSize]

\* How a request can end: a success response, a non-success response whose
\* body carries `detail`, one whose body carries none, a body that is not
\* JSON, or a transport error (fetch rejects).
Outcomes == {"ok", "http_detail", "http_plain", "bad_body", "network"}
Failures == Outcomes \ {"ok"}

\* --------------------------------------------------------------- state
VARIABLES
  view,                 \* mounted page: "ViewData" or "CleanData"
  mounted,              \* the mount effects have run
  \* ViewData
  filename, data, filteredData, headers, pagination, loading, error,
  \* CleanData
  isLoadingInitialData, isLoadingFullData, currentFileName, cleanedFileName,
  fullData, fullDataHeaders, fullDataPagination, fullDataError,
  isFullDataModalOpen, localStorage, csvFetch, previewData,
  isLoadingDetails, detailedStats, deletedData, nullData,
  detailFetches,        \* state of the three dataset-details requests
  \* both pages
  searchTerm,
  \* network and history
  fetches,              \* page fetches in flight
  issued,               \* number of page fetches issued so far
  latest,               \* the most recently issued page fetch and its outcome
  dataId,               \* id of the fetch whose rows are in the row state
  visited,              \* <<file, page>> pairs already fetched successfully
  last,                 \* the step taken last
  \* pure functions
  input, output         \* arguments and result of the function applied

vdVars == << filename, data, filteredData, headers, pagination, loading, error >>
cdPageVars == << isLoadingFullData, fullData, fullDataHeaders,
                 fullDataPagination, fullDataError >>
cdInfoVars == << isLoadingInitialData, currentFileName, cleanedFileName,
                 localStorage, csvFetch >>
cdDetailVars == << isLoadingDetails, detailedStats, deletedData, nullData,
                   detailFetches >>
netVars == << fetches, issued, latest >>
fnVars == << input, output >>
vars == << view, mounted, vdVars, cdPageVars, cdInfoVars, isFullDataModalOpen,
           previewData, cdDetailVars, searchTerm, netVars, dataId, visited,
           last, fnVars >>

DetailKinds == {"stats", "deleted", "nulls"}

\* useState<any>({}) : every field undefined.  0 stands for undefined: it
\* compares like undefined in the guards (n <= undefined is false,
\* undefined === undefined is true, undefined === 1 is false).
EmptyPagination ==
  [current_page |-> 0, total_pages |-> 0, total_rows |-> 0, page_size |-> 0]

InitialFullDataPagination ==
  [current_page |-> 1, total_pages |-> 1, total_rows |-> 0, page_size |-> PageSize]

NoStep == [act |-> "init", id |-> 0, file |-> NULL, page |-> 0,
           outcome |-> NULL, pageAtIssue |-> 0, prevDataId |-> 0,
           toast |-> NULL]

Step(act, id, file, page) ==
  [act |-> act, id |-> id, file |-> file, page |-> page,
   outcome |-> NULL, pageAtIssue |-> 0, prevDataId |-> dataId,
   toast |-> NULL]

\* useState<any>(null) of the three dataset details: nothing stored.
NoDetail == [kind |-> NULL, file |-> NULL]

\* No function has been applied.
NoInput == [fn |-> NULL]
NoOutput == [fn |-> NULL]

NoFetch == [id |-> 0, file |-> NULL, page |-> 0, outcome |-> NULL]

Init ==
  /\ view \in {"ViewData", "CleanData"}
  /\ mounted = FALSE
  /\ filename \in (IF view = "ViewData" THEN Files ELSE {NULL})
  /\ data = << >>
  /\ filteredData = << >>
  /\ headers = << >>
  /\ pagination = EmptyPagination
  /\ loading = TRUE
  /\ error = NULL
  /\ isLoadingInitialData = TRUE
  /\ isLoadingFullData = FALSE
  /\ currentFileName = NULL
  /\ cleanedFileName = NULL
  /\ fullData = << >>
  /\ fullDataHeaders = << >>
  /\ fullDataPagination = InitialFullDataPagination
  /\ fullDataError = NULL
  /\ isFullDataModalOpen = FALSE
  /\ localStorage \in
       (IF view = "CleanData"
        THEN [cleanedFileName : {NULL, CleanedFile},
              uploadedFileName : {NULL, RawFile}]
        ELSE {[cleanedFileName |-> NULL, uploadedFileName |-> NULL]})
  /\ csvFetch = NULL
  /\ previewData = << >>
  /\ isLoadingDetails = FALSE
  /\ detailedStats = NoDetail
  /\ deletedData = NoDetail
  /\ nullData = NoDetail
  /\ detailFetches = [k \in DetailKinds |-> "none"]
  /\ searchTerm = << >>
  /\ input = NoInput
  /\ output = NoOutput
  /\ fetches = {}
  /\ issued = 0
  /\ latest = NoFetch
  /\ dataId = 0
  /\ visited = {}
  /\ last = NoStep

\* ------------------------------------------------------ issuing a fetch
\* fetch(...) is called: the request is in flight until its response is
\* handled.  pageAtIssue and dataAtIssue record the current page and the
\* materialized rows at the moment of the call.
Issue(file, page, act, cur) ==
  /\ issued' = issued + 1
  /\ fetches' = fetches \cup
       {[id |-> issued + 1, file |-> file, page |-> page,
         pageAtIssue |-> cur, dataAtIssue |-> dataId]}
  /\ latest' = [id |-> issued + 1, file |-> file, page |-> page,
                outcome |-> "pending"]
  /\ last' = [Step(act, issued + 1, file, page) EXCEPT !.pageAtIssue = cur]

\* The message thrown by the fetchData helper for a failed request.
CD_ErrorMessage(outcome, errorMessage) ==
  CASE outcome = "http_detail" -> "detail"
    [] outcome = "http_plain"  -> errorMessage
    [] outcome = "bad_body"    -> "Unexpected token in JSON"
    [] OTHER                   -> "Failed to fetch"

\* Variant of CD_fetchDataToast in which the helper only rethrows.
CD_fetchDataToast_silent(outcome, errorMessage) == NULL

\* The description of the toast the fetchData helper raises in its catch
\* block, NULL when the request succeeds.
CD_fetchDataToast(outcome, errorMessage) ==
  IF outcome = "ok" THEN NULL ELSE CD_ErrorMessage(outcome, errorMessage)

\* The response of request r is handled with the given outcome.
Settle(r, outcome) ==
  /\ fetches' = fetches \ {r}
  /\ issued' = issued
  /\ latest' = IF latest.id = r.id
               THEN [latest EXCEPT !.outcome = outcome] ELSE latest
  /\ last' = [act |-> "resp", id |-> r.id, file |-> r.file, page |-> r.page,
              outcome |-> outcome, pageAtIssue |-> r.pageAtIssue,
              prevDataId |-> dataId,
              \* CleanData fetches through its fetchData helper
              toast |-> IF view = "CleanData"
                        THEN CD_fetchDataToast(outcome,
                                               "Failed to fetch paginated data")
                        ELSE NULL]

\* ================================================================ ViewData

\* Object.values(row).some(value => String(value).toLowerCase()
\*                                    .includes(searchTerm.toLowerCase()))
VD_rowMatches(row, term) ==
  \E i \in 1..Len(row.cells) :
    Includes(ToLowerCase(String(row.cells[i])), ToLowerCase(term))

\* ViewData.handleSearch: the rows it stores in filteredData.
VD_filtered(rows, term) ==
  IF Trim(term) = << >> THEN rows
  ELSE LET keep(row) == VD_rowMatches(row, term) IN SelectSeq(rows, keep)

\* e.message in the catch block of fetchData
VD_ErrorMessage(outcome) ==
  CASE outcome = "http_detail" -> "detail"
    [] outcome = "http_plain"  -> "Failed to fetch data"
    [] outcome = "bad_body"    -> "Unexpected token in JSON"
    [] OTHER                   -> "Failed to fetch"

\* Variant of VD_fetchData that drops the materialized rows when the
\* request is issued.
VD_fetchData_discards(file, page, act) ==
  /\ issued < MaxFetches
  /\ loading' = TRUE
  /\ error' = NULL
  /\ Issue(file, page, act, pagination.current_page)
  /\ data' = << >>
  /\ filteredData' = << >>
  /\ dataId' = 0
  /\ UNCHANGED << headers, pagination, visited >>

\* fetchData(page), up to the await: setLoading(true); setError(null); fetch
VD_fetchData(file, page, act) ==
  /\ issued < MaxFetches
  /\ loading' = TRUE
  /\ error' = NULL
  /\ Issue(file, page, act, pagination.current_page)
  /\ UNCHANGED << data, filteredData, headers, pagination, dataId, visited >>

\* Variant of VD_fetchDataSuccess that appends the new rows to the old ones.
VD_fetchDataSuccess_appends(r) ==
  /\ data' = data \o StoreRows(r.file, r.page)
  /\ filteredData' = filteredData \o StoreRows(r.file, r.page)
  /\ headers' = StoreHeaders(r.file)
  /\ pagination' = StorePagination(r.file, r.page)
  /\ error' = error
  /\ dataId' = r.id
  /\ visited' = visited \cup {<< r.file, r.page >>}

\* Variant of VD_fetchDataSuccess that leaves the visible rows alone.
VD_fetchDataSuccess_keepsFilter(r) ==
  /\ data' = StoreRows(r.file, r.page)
  /\ filteredData' = filteredData
  /\ headers' = StoreHeaders(r.file)
  /\ pagination' = StorePagination(r.file, r.page)
  /\ error' = error
  /\ dataId' = r.id
  /\ visited' = visited \cup {<< r.file, r.page >>}

\* Variant of VD_fetchDataSuccess that applies the search text to the new
\* rows.
VD_fetchDataSuccess_refilters(r) ==
  /\ data' = StoreRows(r.file, r.page)
  /\ filteredData' = VD_filtered(StoreRows(r.file, r.page), searchTerm)
  /\ headers' = StoreHeaders(r.file)
  /\ pagination' = StorePagination(r.file, r.page)
  /\ error' = error
  /\ dataId' = r.id
  /\ visited' = visited \cup {<< r.file, r.page >>}

\* fetchData after the await, success path: the four setters.
VD_fetchDataSuccess(r) ==
  /\ data' = StoreRows(r.file, r.page)
  /\ filteredData' = StoreRows(r.file, r.page)
  /\ headers' = StoreHeaders(r.file)
  /\ pagination' = StorePagination(r.file, r.page)
  /\ error' = error
  /\ dataId' = r.id
  /\ visited' = visited \cup {<< r.file, r.page >>}

\* Variant of VD_fetchDataCatch that moves current_page to the failed page.
VD_fetchDataCatch_advances(r, outcome) ==
  /\ error' = VD_ErrorMessage(outcome)
  /\ pagination' = [pagination EXCEPT !.current_page = r.page]
  /\ UNCHANGED << data, filteredData, headers, dataId, visited >>

\* fetchData after the await, catch path: setError(e.message)
VD_fetchDataCatch(r, outcome) ==
  /\ error' = VD_ErrorMessage(outcome)
  /\ UNCHANGED << data, filteredData, headers, pagination, dataId, visited >>

\* Variant of VD_fetchDataResolve with request sequencing: a response that
\* is older than the latest issued request is ignored.
VD_fetchDataResolve_sequenced(r, outcome) ==
  /\ IF r.id # latest.id
     THEN UNCHANGED << data, filteredData, headers, pagination, error,
                       dataId, visited, loading >>
     ELSE /\ IF outcome = "ok" THEN VD_fetchDataSuccess(r)
                               ELSE VD_fetchDataCatch(r, outcome)
          /\ loading' = FALSE
  /\ Settle(r, outcome)

\* Variant of VD_fetchDataResolve that issues the request again when it
\* failed.
VD_fetchDataResolve_retries(r, outcome) ==
  IF outcome = "ok" \/ issued >= MaxFetches
  THEN /\ IF outcome = "ok" THEN VD_fetchDataSuccess(r)
                            ELSE VD_fetchDataCatch(r, outcome)
       /\ loading' = FALSE
       /\ Settle(r, outcome)
  ELSE /\ VD_fetchDataCatch(r, outcome)
       /\ loading' = TRUE
       /\ issued' = issued + 1
       /\ fetches' = (fetches \ {r}) \cup
            {[id |-> issued + 1, file |-> r.file, page |-> r.page,
              pageAtIssue |-> pagination.current_page, dataAtIssue |-> dataId]}
       /\ latest' = [id |-> issued + 1, file |-> r.file, page |-> r.page,
                     outcome |-> "pending"]
       /\ last' = [act |-> "resp", id |-> r.id, file |-> r.file,
                   page |-> r.page, outcome |-> outcome,
                   pageAtIssue |-> r.pageAtIssue, prevDataId |-> dataId,
                   toast |-> NULL]

\* fetchData after the await: try / catch / finally { setLoading(false) }
VD_fetchDataResolve(r, outcome) ==
  /\ IF outcome = "ok" THEN VD_fetchDataSuccess(r)
                       ELSE VD_fetchDataCatch(r, outcome)
  /\ loading' = FALSE
  /\ Settle(r, outcome)

cdUnchanged == << cdPageVars, cdInfoVars, isFullDataModalOpen, previewData,
                 cdDetailVars >>

\* useEffect(() => { fetchData(1) }, [filename]) on mount
VD_Mount ==
  /\ view = "ViewData" /\ ~mounted
  /\ mounted' = TRUE
  /\ VD_fetchData(filename, 1, "mount")
  /\ UNCHANGED << view, filename, cdUnchanged, searchTerm, fnVars >>

\* The route parameter changes; the effect runs with the new filename.
VD_FilenameChange(f) ==
  /\ view = "ViewData" /\ mounted
  /\ f # filename
  /\ filename' = f
  /\ VD_fetchData(f, 1, "filename")
  /\ UNCHANGED << view, mounted, cdUnchanged, searchTerm, fnVars >>

Buttons == {"first", "prev", "next", "last"}

\* The table and the pager are rendered only when !loading && !error.
VD_PagerRendered == ~loading /\ error = NULL

VD_ButtonDisabled(b) ==
  IF b \in {"first", "prev"}
  THEN pagination.current_page = 1
  ELSE pagination.current_page = pagination.total_pages

VD_ButtonPage(b) ==
  CASE b = "first" -> 1
    [] b = "prev"  -> pagination.current_page - 1
    [] b = "next"  -> pagination.current_page + 1
    [] OTHER       -> pagination.total_pages

\* Variant of VD_handlePageChange that answers a page visited before from
\* memory instead of fetching it.
VD_handlePageChange_cached(newPage) ==
  /\ newPage >= 1 /\ newPage <= pagination.total_pages
  /\ IF << filename, newPage >> \in visited
     THEN /\ data' = StoreRows(filename, newPage)
          /\ filteredData' = StoreRows(filename, newPage)
          /\ pagination' = StorePagination(filename, newPage)
          /\ last' = Step("page", 0, filename, newPage)
          /\ UNCHANGED << headers, loading, error, dataId, visited, netVars >>
     ELSE VD_fetchData(filename, newPage, "page")

VD_handlePageChange(newPage) ==
  /\ newPage >= 1 /\ newPage <= pagination.total_pages
  /\ VD_fetchData(filename, newPage, "page")

VD_PageClick(b) ==
  /\ view = "ViewData" /\ mounted
  /\ VD_PagerRendered
  /\ ~VD_ButtonDisabled(b)
  /\ VD_handlePageChange(VD_ButtonPage(b))
  /\ UNCHANGED << view, mounted, filename, cdUnchanged, searchTerm, fnVars >>

VD_Response(r, outcome) ==
  /\ view = "ViewData"
  /\ r \in fetches
  /\ VD_fetchDataResolve(r, outcome)
  /\ UNCHANGED << view, mounted, filename, cdUnchanged, searchTerm, fnVars >>

\* =============================================================== CleanData

vdUnchanged == vdVars

\* What the full data modal and its fetches leave alone.
cdModalUnchanged == << previewData, cdDetailVars, searchTerm, fnVars >>

\* fetchPaginatedData(fileName, page), up to the await.
CD_fetchPaginatedData(fileName, page, act) ==
  IF fileName = NULL
  THEN /\ fullDataError' = "Nombre de archivo no disponible."
       /\ last' = Step(act, 0, fileName, page)
       /\ UNCHANGED << isLoadingFullData, netVars >>
  ELSE /\ issued < MaxFetches
       /\ isLoadingFullData' = TRUE
       /\ fullDataError' = NULL
       /\ Issue(fileName, page, act, fullDataPagination.current_page)

\* fetchPaginatedData after the await, success path.
CD_fetchPaginatedDataSuccess(r) ==
  /\ fullData' = StoreRows(r.file, r.page)
  /\ fullDataHeaders' = StoreHeaders(r.file)
  /\ fullDataPagination' = StorePagination(r.file, r.page)
  /\ fullDataError' = fullDataError
  /\ dataId' = r.id
  /\ visited' = visited \cup {<< r.file, r.page >>}

\* fetchPaginatedData after the await, catch path.
CD_fetchPaginatedDataCatch(r, outcome) ==
  /\ fullDataError' = CD_ErrorMessage(outcome, "Failed to fetch paginated data")
  /\ fullData' = << >>
  /\ fullDataHeaders' = << >>
  /\ dataId' = 0
  /\ UNCHANGED << fullDataPagination, visited >>

\* Variant of CD_fetchPaginatedDataResolve without the finally block: the
\* flag is reset on the success path only.
CD_fetchPaginatedDataResolve_noFinally(r, outcome) ==
  /\ IF outcome = "ok" THEN CD_fetchPaginatedDataSuccess(r)
                       ELSE CD_fetchPaginatedDataCatch(r, outcome)
  /\ isLoadingFullData' = (IF outcome = "ok" THEN FALSE ELSE isLoadingFullData)
  /\ Settle(r, outcome)

\* fetchPaginatedData after the await: try / catch / finally.
CD_fetchPaginatedDataResolve(r, outcome) ==
  /\ IF outcome = "ok" THEN CD_fetchPaginatedDataSuccess(r)
                       ELSE CD_fetchPaginatedDataCatch(r, outcome)
  /\ isLoadingFullData' = FALSE
  /\ Settle(r, outcome)

\* initialCleanedFile || initialUploadedFile of the initial-load effect.
FileNameToLoad(storage) ==
  IF storage.cleanedFileName # NULL THEN storage.cleanedFileName
  ELSE storage.uploadedFileName

\* fileName.startsWith("cleaned_")
StartsWithCleaned(fileName) == fileName = CleanedFile

\* Initial-load effect: pick the file name from localStorage and load it.
CD_Mount ==
  /\ view = "CleanData" /\ ~mounted
  /\ mounted' = TRUE
  /\ LET fileNameToLoad == FileNameToLoad(localStorage)
     IN IF fileNameToLoad # NULL
        THEN /\ csvFetch' = fileNameToLoad          \* fetchCsvInfo(...)
             /\ isLoadingInitialData' = TRUE
        ELSE /\ csvFetch' = NULL
             /\ isLoadingInitialData' = FALSE
  /\ last' = [Step("mount", 0, NULL, 0) EXCEPT
                !.toast =
                  IF localStorage.cleanedFileName = NULL
                       /\ localStorage.uploadedFileName = NULL
                  THEN "No se encontró archivo para cargar información."
                  ELSE NULL]
  \* the modal effect also runs on mount, with the modal closed
  /\ fullDataPagination' = [fullDataPagination EXCEPT !.current_page = 1]
  /\ fullData' = << >>
  /\ dataId' = 0
  /\ UNCHANGED << view, vdUnchanged, isLoadingFullData, fullDataHeaders,
                  fullDataError, currentFileName, cleanedFileName,
                  localStorage, isFullDataModalOpen, netVars, visited,
                  cdModalUnchanged >>

\* result.preview_data of GET get-csv-info/<f>: the first rows of the file.
StorePreview(f) == StoreRows(f, 1)

\* The errorMessage fetchAllDetails passes for each request.
DetailErrorMessage(k) ==
  CASE k = "stats"   -> "Failed to fetch detailed stats"
    [] k = "deleted" -> "Failed to fetch deleted data info"
    [] OTHER         -> "Failed to fetch null data info"

\* What each dataset-details endpoint returns for a file.
DetailResult(k, f) == [kind |-> k, file |-> f]

\* fetchAllDetails(fileName), up to the await of Promise.all: the three
\* requests are issued together.
CD_fetchAllDetails(fileName) ==
  IF fileName = NULL
  THEN UNCHANGED cdDetailVars
  ELSE /\ isLoadingDetails' = TRUE
       /\ detailedStats' = NoDetail
       /\ deletedData' = NoDetail
       /\ nullData' = NoDetail
       /\ detailFetches' = [k \in DetailKinds |-> "pending"]

\* Variant of CD_fetchAllDetailsResolve that stores each result as soon as
\* its own request has resolved.
CD_fetchAllDetailsResolve_eager(k, outcome) ==
  /\ detailFetches' = [detailFetches EXCEPT
                         ![k] = IF outcome = "ok" THEN "ok" ELSE "failed"]
  /\ detailedStats' = IF outcome = "ok" /\ k = "stats"
                      THEN DetailResult("stats", currentFileName)
                      ELSE detailedStats
  /\ deletedData' = IF outcome = "ok" /\ k = "deleted"
                    THEN DetailResult("deleted", currentFileName)
                    ELSE deletedData
  /\ nullData' = IF outcome = "ok" /\ k = "nulls"
                 THEN DetailResult("nulls", currentFileName)
                 ELSE nullData
  /\ isLoadingDetails' =
       (\E j \in DetailKinds \ {k} : detailFetches[j] = "pending")

\* fetchAllDetails after the await: request k resolves.  Promise.all
\* fulfils when the last of the three has succeeded and rejects at the
\* first failure; requests that resolve after a rejection change nothing.
CD_fetchAllDetailsResolve(k, outcome) ==
  LET after == [detailFetches EXCEPT
                  ![k] = IF outcome = "ok" THEN "ok" ELSE "failed"]
      rejectedBefore == \E j \in DetailKinds : detailFetches[j] = "failed"
  IN /\ detailFetches' = after
     /\ IF \A j \in DetailKinds : after[j] = "ok"
        THEN /\ detailedStats' = DetailResult("stats", currentFileName)
             /\ deletedData' = DetailResult("deleted", currentFileName)
             /\ nullData' = DetailResult("nulls", currentFileName)
             /\ isLoadingDetails' = FALSE
        ELSE /\ UNCHANGED << detailedStats, deletedData, nullData >>
             /\ isLoadingDetails' =
                  IF outcome # "ok" /\ ~rejectedBefore
                  THEN FALSE ELSE isLoadingDetails

\* Variant of CD_fetchCsvInfoResolve that keeps the cleanedFileName key when
\* the file loaded is not a cleaned one.
CD_fetchCsvInfoResolve_keepsKey(outcome, actual) ==
  /\ view = "CleanData" /\ mounted
  /\ csvFetch # NULL
  /\ csvFetch' = NULL
  /\ isLoadingInitialData' = FALSE
  /\ IF outcome = "ok"
     THEN LET effectiveFileName == IF actual # NULL THEN actual ELSE csvFetch
          IN /\ previewData' = StorePreview(effectiveFileName)
             /\ filteredData' = StorePreview(effectiveFileName)
             /\ CD_fetchAllDetails(effectiveFileName)
             /\ currentFileName' = effectiveFileName
             /\ IF effectiveFileName = CleanedFile     \* startsWith("cleaned_")
                THEN /\ cleanedFileName' = effectiveFileName
                     /\ localStorage' =
                          [localStorage EXCEPT !.cleanedFileName = effectiveFileName]
                ELSE /\ cleanedFileName' = NULL
                     /\ localStorage' =
                          [localStorage EXCEPT
                             !.uploadedFileName = effectiveFileName]
     ELSE /\ previewData' = << >>
          /\ filteredData' = << >>
          /\ currentFileName' = NULL
          /\ cleanedFileName' = NULL
          /\ localStorage' = localStorage
          /\ UNCHANGED cdDetailVars
  /\ last' = [Step("csv", 0, csvFetch, 0) EXCEPT
                !.outcome = outcome,
                !.toast = CD_fetchDataToast(outcome, "Failed to fetch CSV info")]
  \* the modal effect re-runs when currentFileName changes; the modal is
  \* closed (its trigger is disabled while the initial load is running)
  /\ IF isFullDataModalOpen
     THEN UNCHANGED << fullDataPagination, fullData, dataId >>
     ELSE /\ fullDataPagination' = [fullDataPagination EXCEPT !.current_page = 1]
          /\ fullData' = << >>
          /\ dataId' = 0
  /\ UNCHANGED << view, mounted, filename, data, headers, pagination,
                  loading, error, isLoadingFullData, fullDataHeaders,
                  fullDataError, isFullDataModalOpen, netVars, visited,
                  searchTerm, fnVars >>

\* fetchCsvInfo after the await.  actual is result.actual_filename.
CD_fetchCsvInfoResolve(outcome, actual) ==
  /\ view = "CleanData" /\ mounted
  /\ csvFetch # NULL
  /\ csvFetch' = NULL
  /\ isLoadingInitialData' = FALSE
  /\ IF outcome = "ok"
     THEN LET effectiveFileName == IF actual # NULL THEN actual ELSE csvFetch
          IN /\ previewData' = StorePreview(effectiveFileName)
             /\ filteredData' = StorePreview(effectiveFileName)
             /\ CD_fetchAllDetails(effectiveFileName)
             /\ currentFileName' = effectiveFileName
             /\ IF effectiveFileName = CleanedFile     \* startsWith("cleaned_")
                THEN /\ cleanedFileName' = effectiveFileName
                     /\ localStorage' =
                          [localStorage EXCEPT !.cleanedFileName = effectiveFileName]
                ELSE /\ cleanedFileName' = NULL
                     /\ localStorage' =
                          [cleanedFileName |-> NULL,
                           uploadedFileName |-> effectiveFileName]
     ELSE /\ previewData' = << >>
          /\ filteredData' = << >>
          /\ currentFileName' = NULL
          /\ cleanedFileName' = NULL
          /\ localStorage' = localStorage
          /\ UNCHANGED cdDetailVars
  /\ last' = [Step("csv", 0, csvFetch, 0) EXCEPT
                !.outcome = outcome,
                !.toast = CD_fetchDataToast(outcome, "Failed to fetch CSV info")]
  \* the modal effect re-runs when currentFileName changes; the modal is
  \* closed (its trigger is disabled while the initial load is running)
  /\ IF isFullDataModalOpen
     THEN UNCHANGED << fullDataPagination, fullData, dataId >>
     ELSE /\ fullDataPagination' = [fullDataPagination EXCEPT !.current_page = 1]
          /\ fullData' = << >>
          /\ dataId' = 0
  /\ UNCHANGED << view, mounted, filename, data, headers, pagination,
                  loading, error, isLoadingFullData, fullDataHeaders,
                  fullDataError, isFullDataModalOpen, netVars, visited,
                  searchTerm, fnVars >>

\* One of the three dataset-details requests resolves.
CD_DetailResponse(k, outcome) ==
  /\ view = "CleanData"
  /\ detailFetches[k] = "pending"
  /\ CD_fetchAllDetailsResolve(k, outcome)
  /\ last' = [Step("detail", 0, k, 0) EXCEPT
                !.outcome = outcome,
                !.toast = CD_fetchDataToast(outcome, DetailErrorMessage(k))]
  /\ UNCHANGED << view, mounted, vdUnchanged, cdPageVars, cdInfoVars,
                  isFullDataModalOpen, previewData, searchTerm, netVars,
                  dataId, visited, fnVars >>

\* The modal effect for an open modal: load page 1 unless page 1 is there.
CD_ModalEffectOpen ==
  IF currentFileName # NULL
       /\ (Len(fullData) = 0 \/ fullDataPagination.current_page # 1)
  THEN CD_fetchPaginatedData(currentFileName, 1, "open")
  ELSE /\ last' = Step("open", 0, currentFileName, 0)
       /\ UNCHANGED << isLoadingFullData, fullDataError, netVars >>

\* The dialog trigger is clicked: setIsFullDataModalOpen(true), then the effect.
CD_OpenModal ==
  /\ view = "CleanData" /\ mounted
  /\ ~isFullDataModalOpen
  /\ currentFileName # NULL /\ ~isLoadingInitialData     \* trigger enabled
  /\ isFullDataModalOpen' = TRUE
  /\ CD_ModalEffectOpen
  /\ UNCHANGED << view, mounted, vdUnchanged, cdInfoVars, fullData,
                  fullDataHeaders, fullDataPagination, dataId, visited,
                  cdModalUnchanged >>

\* The dialog is closed: setIsFullDataModalOpen(false), then the effect.
CD_CloseModal ==
  /\ view = "CleanData" /\ mounted
  /\ isFullDataModalOpen
  /\ isFullDataModalOpen' = FALSE
  /\ fullDataPagination' = [fullDataPagination EXCEPT !.current_page = 1]
  /\ fullData' = << >>
  /\ dataId' = 0
  /\ last' = Step("close", 0, currentFileName, 0)
  /\ UNCHANGED << view, mounted, vdUnchanged, cdInfoVars, isLoadingFullData,
                  fullDataHeaders, fullDataError, netVars, visited,
                  cdModalUnchanged >>

CD_ButtonDisabled(b) ==
  \/ isLoadingFullData
  \/ IF b \in {"first", "prev"}
     THEN fullDataPagination.current_page = 1
     ELSE fullDataPagination.current_page = fullDataPagination.total_pages

CD_ButtonPage(b) ==
  CASE b = "first" -> 1
    [] b = "prev"  -> fullDataPagination.current_page - 1
    [] b = "next"  -> fullDataPagination.current_page + 1
    [] OTHER       -> fullDataPagination.total_pages

CD_handleFullDataPageChange(newPage) ==
  /\ currentFileName # NULL
  /\ newPage >= 1 /\ newPage <= fullDataPagination.total_pages
  /\ CD_fetchPaginatedData(currentFileName, newPage, "page")
  /\ UNCHANGED << fullData, fullDataHeaders, fullDataPagination, dataId,
                  visited >>

CD_PageClick(b) ==
  /\ view = "CleanData" /\ mounted
  /\ isFullDataModalOpen
  /\ ~CD_ButtonDisabled(b)
  /\ CD_handleFullDataPageChange(CD_ButtonPage(b))
  /\ UNCHANGED << view, mounted, vdUnchanged, cdInfoVars, isFullDataModalOpen,
                  cdModalUnchanged >>

CD_Response(r, outcome) ==
  /\ view = "CleanData"
  /\ r \in fetches
  /\ CD_fetchPaginatedDataResolve(r, outcome)
  /\ UNCHANGED << view, mounted, vdUnchanged, cdInfoVars, isFullDataModalOpen,
                  cdModalUnchanged >>

\* ================================================================== search
\* Search texts the user types in the pages.
Queries == { << >>, << "b" >> }

\* ViewData, second revision: filteredData is computed on every render from
\* data, headers and finalSearchTerm (every row has one cell per header).
VD2_filteredData(rows, finalSearchTerm) ==
  LET keep(row) ==
        \E h \in 1..Len(row.cells) :
          Includes(ToLowerCase(String(row.cells[h])),
                   ToLowerCase(finalSearchTerm))
  IN SelectSeq(rows, keep)

\* value !== null && value !== undefined &&
\*   String(value).toLowerCase().includes(lowerSearchTerm)
CD_rowMatches(row, term) ==
  \E i \in 1..Len(row.cells) :
    /\ row.cells[i].t # "null"
    /\ Includes(ToLowerCase(String(row.cells[i])), ToLowerCase(term))

\* CleanData.handleSearch: the rows it stores in filteredData.
CD_filtered(rows, term) ==
  IF Trim(term) = << >> THEN rows
  ELSE IF Len(rows) = 0 THEN << >>
  ELSE LET keep(row) == CD_rowMatches(row, term) IN SelectSeq(rows, keep)

searchUnchanged ==
  << view, mounted, filename, data, headers, pagination, loading, error,
     cdUnchanged, netVars, dataId, visited, fnVars >>

\* onChange of the search input: setSearchTerm(e.target.value)
VD_handleSearchChange(q) ==
  /\ view = "ViewData" /\ mounted
  /\ q # searchTerm
  /\ searchTerm' = q
  /\ last' = Step("type", 0, NULL, 0)
  /\ UNCHANGED << filteredData, searchUnchanged >>

\* Variant of VD_handleSearch that filters the page rows in place.
VD_handleSearch_inPlace ==
  /\ view = "ViewData" /\ mounted
  /\ filteredData' = VD_filtered(data, searchTerm)
  /\ data' = VD_filtered(data, searchTerm)
  /\ last' = Step("search", 0, NULL, 0)
  /\ UNCHANGED << searchTerm, view, mounted, filename, headers, pagination,
                  loading, error, cdUnchanged, netVars, dataId, visited,
                  fnVars >>

\* The search button is clicked or Enter is pressed.
VD_handleSearch ==
  /\ view = "ViewData" /\ mounted
  /\ filteredData' = VD_filtered(data, searchTerm)
  /\ last' = Step("search", 0, NULL, 0)
  /\ UNCHANGED << searchTerm, searchUnchanged >>

VD_handleClearSearch ==
  /\ view = "ViewData" /\ mounted
  /\ searchTerm' = << >>
  /\ filteredData' = data
  /\ last' = Step("clear", 0, NULL, 0)
  /\ UNCHANGED searchUnchanged

\* The search controls of CleanData are disabled during the initial load and
\* cannot be reached while the modal dialog is open.
CD_SearchEnabled ==
  /\ view = "CleanData" /\ mounted
  /\ ~isLoadingInitialData
  /\ ~isFullDataModalOpen

CD_handleSearchChange(q) ==
  /\ CD_SearchEnabled
  /\ q # searchTerm
  /\ searchTerm' = q
  /\ last' = Step("type", 0, NULL, 0)
  /\ UNCHANGED << filteredData, searchUnchanged >>

CD_handleSearch ==
  /\ CD_SearchEnabled
  /\ filteredData' = CD_filtered(previewData, searchTerm)
  /\ last' = Step("search", 0, NULL, 0)
  /\ UNCHANGED << searchTerm, searchUnchanged >>

CD_handleClearSearch ==
  /\ CD_SearchEnabled
  /\ searchTerm # << >>
  /\ searchTerm' = << >>
  /\ filteredData' = previewData
  /\ last' = Step("clear", 0, NULL, 0)
  /\ UNCHANGED searchUnchanged

\* ============================================================ specification
Next ==
  \/ VD_Mount
  \/ \E f \in Files : VD_FilenameChange(f)
  \/ \E b \in Buttons : VD_PageClick(b)
  \/ \E r \in fetches, o \in Outcomes : VD_Response(r, o)
  \/ CD_Mount
  \/ \E o \in Outcomes, a \in Files \cup {NULL} : CD_fetchCsvInfoResolve(o, a)
  \/ CD_OpenModal
  \/ CD_CloseModal
  \/ \E b \in Buttons : CD_PageClick(b)
  \/ \E r \in fetches, o \in Outcomes : CD_Response(r, o)
  \/ \E q \in Queries : VD_handleSearchChange(q)
  \/ VD_handleSearch
  \/ VD_handleClearSearch
  \/ \E q \in Queries : CD_handleSearchChange(q)
  \/ CD_handleSearch
  \/ CD_handleClearSearch

Spec == Init /\ [][Next]_vars

\* ================================================================== views
\* The state of the mounted page, whichever page it is.
Rows == IF view = "ViewData" THEN data ELSE fullData
Headers == IF view = "ViewData" THEN headers ELSE fullDataHeaders
Pagination == IF view = "ViewData" THEN pagination ELSE fullDataPagination
Loading == IF view = "ViewData" THEN loading ELSE isLoadingFullData
Error == IF view = "ViewData" THEN error ELSE fullDataError

\* Rows of the table as rendered: ViewData renders the table only when
\* !loading && !error, the modal renders skeletons while loading and the
\* message instead of the table when there is an error.
RenderedRows ==
  IF view = "ViewData"
  THEN IF ~loading /\ error = NULL THEN filteredData ELSE << >>
  ELSE IF isFullDataModalOpen /\ ~isLoadingFullData /\ fullDataError = NULL
       THEN fullData ELSE << >>

IssueActs == {"mount", "filename", "page", "open"}
Responded(outs) == last.act = "resp" /\ last.outcome \in outs

\* ================================================================== claims

\* C1: every page fetch enters Loading when it is issued and, when its
\* response arrives, ends in exactly one of Ready (success: rows, headers and
\* pagination stored, no error) or Failed (failure: error message stored).
C1_FetchEndsReadyOrFailed ==
  /\ (last.act \in IssueActs /\ last.id # 0) => Loading
  /\ Responded({"ok"}) =>
       /\ ~Loading
       /\ Error = NULL
       /\ Rows = StoreRows(last.file, last.page)
       /\ Headers = StoreHeaders(last.file)
       /\ Pagination = StorePagination(last.file, last.page)
  /\ Responded(Failures) => (~Loading /\ Error # NULL)

\* C2: once no fetch is in flight and the most recently issued request
\* succeeded, the materialized rows, headers and current_page are those the
\* store returned for that most recently issued request.
C2_LatestRequestShown ==
  (/\ fetches = {}
   /\ latest.outcome = "ok"
   /\ view = "CleanData" => isFullDataModalOpen)
  => /\ Rows = StoreRows(latest.file, latest.page)
     /\ Headers = StoreHeaders(latest.file)
     /\ Pagination.current_page = latest.page

\* C3: there is no cancellation or sequencing of in-flight page fetches:
\* every successful response is applied to the view state when it arrives,
\* also when a newer request was issued (or the modal was closed) meanwhile.
C3_EveryResponseApplied ==
  [][Responded({"ok"})' =>
       /\ Rows' = StoreRows(last'.file, last'.page)
       /\ Headers' = StoreHeaders(last'.file)
       /\ Pagination' = StorePagination(last'.file, last'.page)]_vars

\* C3 witness: a late response has overwritten the rows and the pagination
\* stored by a request that was issued after it.
C3_StaleOverwrite ==
  /\ Responded({"ok"})
  /\ last.id < latest.id
  /\ last.prevDataId > last.id
  /\ Rows = StoreRows(last.file, last.page)
  /\ Rows # StoreRows(latest.file, latest.page)
  /\ Pagination.current_page = last.page

C5_RequestedPageInRange ==
  (last.act = "page" /\ last.id # 0) =>
    (1 <= last.page /\ last.page <= TotalPages(last.file))

\* C6: whenever at least one page fetch is in flight, the loading flag is
\* true and no rows of a previously fetched page are rendered.
C6_LoadingWhileInFlight ==
  fetches # {} => (Loading /\ RenderedRows = << >>)

C8_NoPageCache ==
  [][/\ last'.act = "page" =>
          /\ \E r \in fetches' \ fetches :
               r.file = last'.file /\ r.page = last'.page
          /\ Rows' = Rows
     /\ Rows' # Rows => last'.act \in {"resp", "close"}]_vars

\* C8 witness: a page that was fetched before is requested again and a new
\* fetch for it is in flight.
C8_RevisitFetches ==
  /\ last.act = "page"
  /\ << last.file, last.page >> \in visited
  /\ \E r \in fetches : r.id = last.id /\ r.page = last.page

\* C9: after every successful fetch the row state equals exactly the rows of
\* that response, so the materialized rows are always the rows of a single
\* store response (or none).
C9_OnePageMaterialized ==
  /\ \/ Rows = << >>
     \/ \E f \in Files : \E p \in 1..TotalPages(f) : Rows = StoreRows(f, p)
  /\ Responded({"ok"}) => Rows = StoreRows(last.file, last.page)

\* C9 witness: a successful response has replaced the rows of another
\* response.
C9_PageReplaced ==
  /\ Responded({"ok"})
  /\ last.prevDataId \notin {0, last.id}
  /\ Len(Rows) > 0
  /\ Rows = StoreRows(last.file, last.page)

\* C10: no automatic retry: a fetch is issued only by a user action (opening
\* the page, a dataset-id change, a page request, opening the modal);
\* handling a response, failed or not, issues none.
C10_NoAutomaticRetry ==
  [][/\ issued' # issued => last'.act \in IssueActs
     /\ last'.act = "resp" => (issued' = issued /\ fetches' \subseteq fetches)]_vars

\* C10 witness: a fetch has failed and nothing is in flight although
\* another fetch could be issued.
C10_FailedAndIdle ==
  /\ Responded(Failures)
  /\ fetches = {}
  /\ issued < MaxFetches
  /\ Error # NULL

\* ------------------------------------------------------------------ search
\* The rows the search box of the mounted page works on.
PageRows == IF view = "ViewData" THEN data ELSE previewData

\* a is a subsequence of b: the elements of a occur in b in the same order.
RECURSIVE IsSubsequence(_, _)
IsSubsequence(a, b) ==
  IF a = << >> THEN TRUE
  ELSE IF b = << >> THEN FALSE
  ELSE IF a[1] = b[1] THEN IsSubsequence(Tail(a), Tail(b))
  ELSE IsSubsequence(a, Tail(b))

SearchActs == {"type", "search", "clear"}

\* C12: after any sequence of page fetches, searches and clear-search
\* actions the visible rows are a subsequence of the rows of the currently
\* materialized page, in their original order.
C12_VisibleRowsSubsequence ==
  IsSubsequence(filteredData, PageRows)

\* C12 witness: a search has hidden some rows of the page and kept others.
C12_ProperSubset ==
  /\ last.act = "search"
  /\ Len(filteredData) > 0
  /\ Len(filteredData) < Len(PageRows)

\* C15: typing, applying or clearing a search issues no request and changes
\* nothing but the visible rows and the search text.
C15_SearchIsLocal ==
  [][last'.act \in SearchActs =>
       UNCHANGED << view, mounted, filename, data, headers, pagination,
                    loading, error, cdUnchanged, netVars, dataId, visited >>]_vars

\* C15 witness: a non-empty search has been applied to a page, hiding rows,
\* while nothing was in flight.
C15_SearchApplied ==
  /\ last.act = "search"
  /\ Trim(searchTerm) # << >>
  /\ filteredData # PageRows
  /\ fetches = {}
  /\ Error = NULL

\* ===================================================== the dataset details
\* CleanData with its initial load and the three dataset-details requests
\* that fetchAllDetails issues together.
InitDetails == Init /\ view = "CleanData"

NextDetails ==
  \/ CD_Mount
  \/ \E o \in Outcomes, a \in Files \cup {NULL} : CD_fetchCsvInfoResolve(o, a)
  \/ \E k \in DetailKinds, o \in Outcomes : CD_DetailResponse(k, o)

SpecDetails == InitDetails /\ [][NextDetails]_vars

DetailsStored == { k \in DetailKinds :
                     CASE k = "stats"   -> detailedStats # NoDetail
                       [] k = "deleted" -> deletedData # NoDetail
                       [] OTHER         -> nullData # NoDetail }

\* C16: the three dataset details are stored together, from the responses of
\* one fetchAllDetails call and only once all three requests have succeeded;
\* if any of them fails, or while any is pending, none is stored.
C16_AllOrNothing ==
  /\ DetailsStored \in {{}, DetailKinds}
  /\ DetailsStored = DetailKinds =>
       /\ \A k \in DetailKinds : detailFetches[k] = "ok"
       /\ detailedStats = DetailResult("stats", currentFileName)
       /\ deletedData = DetailResult("deleted", currentFileName)
       /\ nullData = DetailResult("nulls", currentFileName)
  /\ (\E k \in DetailKinds : detailFetches[k] # "ok") => DetailsStored = {}

\* Two of the three requests have succeeded, the third has failed last, and
\* nothing is stored.
C16_OneFailureFailsAll ==
  /\ last.act = "detail" /\ last.outcome \in Failures
  /\ Cardinality({k \in DetailKinds : detailFetches[k] = "ok"}) = 2
  /\ DetailsStored = {}
  /\ ~isLoadingDetails

\* ================================================================ failures
\* Both pages with every Dataset Store fetch they issue: the page fetches,
\* the CSV-info fetch and the three dataset-details fetches.
NextFetches ==
  \/ VD_Mount
  \/ \E f \in Files : VD_FilenameChange(f)
  \/ \E b \in Buttons : VD_PageClick(b)
  \/ \E r \in fetches, o \in Outcomes : VD_Response(r, o)
  \/ CD_Mount
  \/ \E o \in Outcomes, a \in Files \cup {NULL} : CD_fetchCsvInfoResolve(o, a)
  \/ \E k \in DetailKinds, o \in Outcomes : CD_DetailResponse(k, o)
  \/ CD_OpenModal
  \/ CD_CloseModal
  \/ \E b \in Buttons : CD_PageClick(b)
  \/ \E r \in fetches, o \in Outcomes : CD_Response(r, o)

\* Page fetches issued while the details requests are followed too.
MaxFetchesWithDetails == 2

CappedFetches == NextFetches /\ issued' <= MaxFetchesWithDetails

SpecFetches == Init /\ [][CappedFetches]_vars

\* The error message of the page fetch is on screen: ViewData renders
\* {error && <p>Error: {error}</p>}, the modal renders fullDataError when it
\* is open and not loading.
ErrorShown ==
  IF view = "ViewData" THEN error # NULL
  ELSE isFullDataModalOpen /\ ~isLoadingFullData /\ fullDataError # NULL

\* The step taken last handled the failure of a Dataset Store fetch.
FetchFailed ==
  last.act \in {"resp", "csv", "detail"} /\ last.outcome \in Failures

\* C23: every failed fetch of a page, of the CSV info or of a dataset detail
\* is made visible: its message is shown by the view or an error toast is
\* raised.
C23_FailuresVisible ==
  FetchFailed =>
    \/ last.toast # NULL
    \/ last.act = "resp" /\ ErrorShown

\* A dataset-details request has failed: fetchAllDetails stores nothing and
\* only logs, the toast of the helper is what the user sees.
C23_DetailFailureToasted ==
  /\ last.act = "detail" /\ last.outcome \in Failures
  /\ DetailsStored = {}
  /\ last.toast # NULL


\* ======================================================= the search functions
\* The search of each page and revision as a function of the materialized
\* rows and the text typed, applied to every small page and text.
MaxSearchRows == 2
MaxCells == 2

SearchCells == { Null, Str(<< >>), Str(<< "N", "u" >>), Num(1) }
SearchTerms == { << >>, << " " >>, << "n", "u" >>, << "E" >>, << "1" >> }

CellSeqs == UNION { [1..n -> SearchCells] : n \in 1..MaxCells }

MkRows(cs) ==
  [i \in 1..Len(cs) |-> [file |-> RawFile, idx |-> i, cells |-> cs[i]]]

SearchInputs ==
  { [fn |-> "search", rows |-> MkRows(cs), term |-> q] :
      cs \in UNION { [1..n -> CellSeqs] : n \in 0..MaxSearchRows },
      q \in SearchTerms }

Eliminado == << "E", "l", "i", "m", "i", "n", "a", "d", "o" >>

\* fetchCsvInfo of the revision in part_000: every null or "NULL" cell of
\* the preview becomes "Eliminado" before the rows are stored.
P0_cleanedData(rows) ==
  [i \in 1..Len(rows) |->
     [rows[i] EXCEPT !.cells =
        [j \in 1..Len(rows[i].cells) |->
           IF rows[i].cells[j].t = "null"
                \/ ToUpperCase(String(rows[i].cells[j])) = << "N", "U", "L", "L" >>
           THEN Str(Eliminado)
           ELSE rows[i].cells[j]]]]

\* handleSearch of the revision in part_000.
P0_filtered(rows, term) ==
  IF Trim(term) = << >> THEN rows
  ELSE LET keep(row) == VD_rowMatches(row, term) IN SelectSeq(rows, keep)

\* Everything but the function variables.
appVars == << view, mounted, vdVars, cdPageVars, cdInfoVars,
              isFullDataModalOpen, previewData, cdDetailVars, searchTerm,
              netVars, dataId, visited, last >>

\* No page is mounted.
NoPage ==
  /\ view = NULL
  /\ mounted = FALSE
  /\ filename = NULL
  /\ data = << >>
  /\ filteredData = << >>
  /\ headers = << >>
  /\ pagination = EmptyPagination
  /\ loading = TRUE
  /\ error = NULL
  /\ isLoadingInitialData = TRUE
  /\ isLoadingFullData = FALSE
  /\ currentFileName = NULL
  /\ cleanedFileName = NULL
  /\ fullData = << >>
  /\ fullDataHeaders = << >>
  /\ fullDataPagination = InitialFullDataPagination
  /\ fullDataError = NULL
  /\ isFullDataModalOpen = FALSE
  /\ localStorage = [cleanedFileName |-> NULL, uploadedFileName |-> NULL]
  /\ csvFetch = NULL
  /\ previewData = << >>
  /\ isLoadingDetails = FALSE
  /\ detailedStats = NoDetail
  /\ deletedData = NoDetail
  /\ nullData = NoDetail
  /\ detailFetches = [k \in DetailKinds |-> "none"]
  /\ searchTerm = << >>
  /\ fetches = {}
  /\ issued = 0
  /\ latest = NoFetch
  /\ dataId = 0
  /\ visited = {}
  /\ last = NoStep

InitSearch ==
  /\ NoPage
  /\ input \in SearchInputs
  /\ output = NoOutput

\* page: the rows the page holds; rows: the rows the search leaves visible.
Searched(fn, page, rows) == [fn |-> fn, page |-> page, rows |-> rows]

Apply_VD_handleSearch ==
  /\ output = NoOutput
  /\ output' = Searched("VD_handleSearch", input.rows,
                        VD_filtered(input.rows, input.term))
  /\ UNCHANGED << input, appVars >>

Apply_VD2_filteredData ==
  /\ output = NoOutput
  /\ output' = Searched("VD2_filteredData", input.rows,
                        VD2_filteredData(input.rows, input.term))
  /\ UNCHANGED << input, appVars >>

Apply_CD_handleSearch ==
  /\ output = NoOutput
  /\ output' = Searched("CD_handleSearch", input.rows,
                        CD_filtered(input.rows, input.term))
  /\ UNCHANGED << input, appVars >>

Apply_P0_handleSearch ==
  /\ output = NoOutput
  /\ output' = Searched("P0_handleSearch", P0_cleanedData(input.rows),
                        P0_filtered(P0_cleanedData(input.rows), input.term))
  /\ UNCHANGED << input, appVars >>

NextSearch ==
  \/ Apply_VD_handleSearch
  \/ Apply_VD2_filteredData
  \/ Apply_CD_handleSearch
  \/ Apply_P0_handleSearch

SpecSearch == InitSearch /\ [][NextSearch]_vars

\* A cell that can take part in matching: neither null nor empty.
HasValue(v) == v.t # "null" /\ String(v) # << >>

\* Row i of the input has a cell with a value whose string form contains q,
\* ignoring case.
ValueContains(i, q) ==
  \E j \in 1..Len(input.rows[i].cells) :
    /\ HasValue(input.rows[i].cells[j])
    /\ Includes(ToLowerCase(String(input.rows[i].cells[j])), ToLowerCase(q))

\* Row i of the page is among the visible rows.
Retained(i) == \E k \in 1..Len(output.rows) : output.rows[k].idx = i

\* C11: a search with an empty or whitespace-only query leaves all the rows
\* of the materialized page visible, in the same order.
C11_SearchIdentity ==
  (output.fn # NULL /\ Trim(input.term) = << >>) => output.rows = output.page

\* C13: for a non-empty query q, a row of the page is retained if and only
\* if one of its field values contains q in string form, ignoring case.
C13_RetainedIffContains ==
  (output.fn \in {"VD_handleSearch", "CD_handleSearch"}
     /\ Trim(input.term) # << >>)
  => \A i \in 1..Len(input.rows) : Retained(i) <=> ValueContains(i, input.term)

\* C14: for a non-empty query, a row whose only possible match would come
\* from a null or empty cell is not retained.
C14_NullCellsNeverMatch ==
  (output.fn \in {"VD_handleSearch", "CD_handleSearch", "P0_handleSearch"}
     /\ Trim(input.term) # << >>)
  => \A i \in 1..Len(input.rows) : Retained(i) => ValueContains(i, input.term)

\* ============================================ classification, reconciliation
\* ColumnTypeClassifier and DatasetReconciler as functions of a cleaned
\* dataset, applied to every small dataset.
MaxRows == 2
MaxCols == 3

HeaderNames == << "id", "city", "revenue", "region", "units" >>

\* The values a cell of column j can hold.
ColumnCells(j) ==
  CASE j % 3 = 1 -> { Null, Milli(1003), Str(<< "A" >>) }
    [] j % 3 = 2 -> { Null, Str(<< >>), Str(<< "2" >>), Str(<< "A" >>) }
    [] OTHER     -> { Null, Milli(6), Str(<< >>) }

\* The rows of m cells.
CellRows(m) == { cs \in [1..m -> UNION { ColumnCells(j) : j \in 1..m }] :
                   \A j \in 1..m : cs[j] \in ColumnCells(j) }

\* A dataset: the column names in display order and the rows in order.
Dataset(m, cs) ==
  [headers |-> SubSeq(HeaderNames, 1, m),
   rows |-> [i \in 1..Len(cs) |->
               [file |-> CleanedFile, idx |-> i, cells |-> cs[i]]]]

Datasets ==
  UNION { { Dataset(m, cs) :
              cs \in UNION { [1..n -> CellRows(m)] : n \in 0..MaxRows } } :
          m \in 0..MaxCols }

\* Null and the empty string are the two markers of a missing value.
IsMissing(v) == v.t = "null" \/ (v.t = "str" /\ v.s = << >>)

IsDigit(c) == \E k \in 1..Len(Digits) : Digits[k] = c
DigitValue(c) == (CHOOSE k \in 1..Len(Digits) : Digits[k] = c) - 1

\* The number written by a sequence of digits.
RECURSIVE DigitsValue(_)
DigitsValue(ds) ==
  IF ds = << >> THEN 0
  ELSE 10 * DigitsValue(SubSeq(ds, 1, Len(ds) - 1)) + DigitValue(ds[Len(ds)])

\* Position of the decimal point of s, Len(s) + 1 when it has none.
DotPos(s) ==
  IF \E i \in 1..Len(s) : s[i] = "."
  THEN CHOOSE i \in 1..Len(s) : s[i] = "." /\ \A k \in 1..(i - 1) : s[k] # "."
  ELSE Len(s) + 1

\* s is a numeric literal: digits with at most one decimal point ("42",
\* "3.14"), and at least one digit.
IsNumericLiteral(s) ==
  /\ \E i \in 1..Len(s) : IsDigit(s[i])
  /\ \A i \in 1..Len(s) : IsDigit(s[i]) \/ i = DotPos(s)

\* Tolerant numeric coercion: a number, or a string that is a numeric literal.
ParsesNumeric(v) ==
  \/ v.t = "num"
  \/ v.t = "str" /\ IsNumericLiteral(v.s)

\* The number a value that parses stands for, in thousandths.
NumericValue(v) ==
  IF v.t = "num" THEN v.n
  ELSE LET dot == DotPos(v.s)
           whole == SubSeq(v.s, 1, dot - 1)
           frac == SubSeq(SubSeq(v.s, dot + 1, Len(v.s)) \o << "0", "0", "0" >>,
                          1, 3)
       IN 1000 * DigitsValue(whole) + DigitsValue(frac)

\* Scan of column j from row i on, in the original order: the first value
\* that is not missing, Null when there is none.
RECURSIVE FirstNonNull(_, _, _)
FirstNonNull(rows, j, i) ==
  IF i > Len(rows) THEN Null
  ELSE IF ~IsMissing(rows[i].cells[j]) THEN rows[i].cells[j]
  ELSE FirstNonNull(rows, j, i + 1)

\* Variant of ColumnType that samples the first row, missing or not.
ColumnType_firstRow(dataset, j) ==
  IF Len(dataset.rows) = 0 \/ IsMissing(dataset.rows[1].cells[j])
  THEN "categorical"
  ELSE IF ParsesNumeric(dataset.rows[1].cells[j]) THEN "numeric"
  ELSE "categorical"

\* The type of column j of the dataset.
ColumnType(dataset, j) ==
  LET sample == FirstNonNull(dataset.rows, j, 1)
  IN IF IsMissing(sample) THEN "categorical"
     ELSE IF ParsesNumeric(sample) THEN "numeric"
     ELSE "categorical"

\* classify(dataset): the map from every column name to its type.
classify(dataset) ==
  [h \in { dataset.headers[j] : j \in 1..Len(dataset.headers) } |->
     ColumnType(dataset,
                CHOOSE j \in 1..Len(dataset.headers) : dataset.headers[j] = h)]

\* Variant of HasNullCategorical that discards on a missing value in any
\* column.
HasNullCategorical_anyColumn(row, hdrs, types) ==
  \E j \in 1..Len(hdrs) : IsMissing(row.cells[j])

\* "row has a null value in any categorical column"
HasNullCategorical(row, hdrs, types) ==
  \E j \in 1..Len(hdrs) :
    types[hdrs[j]] = "categorical" /\ IsMissing(row.cells[j])

\* The columns of the row that hold a number in a numeric column.
NumericValued(row, hdrs, types) ==
  { j \in 1..Len(hdrs) :
      /\ types[hdrs[j]] = "numeric"
      /\ ~IsMissing(row.cells[j])
      /\ ParsesNumeric(row.cells[j]) }

\* Sum of the numbers of the row in the columns js.
RECURSIVE SumValues(_, _)
SumValues(row, js) ==
  IF js = {} THEN 0
  ELSE LET j == CHOOSE k \in js : TRUE
       IN NumericValue(row.cells[j]) + SumValues(row, js \ {j})

\* Variant of RoundedMean that cuts the mean to 2 decimals.
RoundedMean_truncated(sum, count) == 10 * (sum \div (10 * count))

\* sum / count rounded to 2 decimals, in thousandths.
RoundedMean(sum, count) == 10 * ((2 * sum + 10 * count) \div (20 * count))

\* Step 3: the row with its missing numeric-column values replaced by the
\* mean of its own numbers; unchanged when it holds no number.
Impute(row, hdrs, types) ==
  LET valued == NumericValued(row, hdrs, types)
  IN IF valued = {} THEN row
     ELSE LET mean == RoundedMean(SumValues(row, valued), Cardinality(valued))
          IN [row EXCEPT !.cells =
                [j \in 1..Len(hdrs) |->
                   IF types[hdrs[j]] = "numeric" /\ IsMissing(row.cells[j])
                   THEN Milli(mean)
                   ELSE row.cells[j]]]

\* Variant of reconcile that accepts a dataset without headers.
reconcile_anySchema(original, cleaned) ==
  LET types == classify(cleaned)
      discard(row) == HasNullCategorical(row, cleaned.headers, types)
      candidate(row) == ~discard(row)
      candidates == SelectSeq(cleaned.rows, candidate)
  IN [status |-> "ok",
      accepted |->
        [headers |-> cleaned.headers,
         rows |-> [i \in 1..Len(candidates) |->
                     Impute(candidates[i], cleaned.headers, types)]],
      discarded |->
        [headers |-> cleaned.headers,
         rows |-> SelectSeq(cleaned.rows, discard)]]

\* Variant of reconcile that also drops the candidate rows it cannot impute.
reconcile_dropsUnfillable(original, cleaned) ==
  IF Len(cleaned.headers) = 0
  THEN [status |-> "IncompatibleSchema",
        accepted |-> [headers |-> << >>, rows |-> << >>],
        discarded |-> [headers |-> << >>, rows |-> << >>]]
  ELSE LET types == classify(cleaned)
           discard(row) == HasNullCategorical(row, cleaned.headers, types)
           candidate(row) ==
             /\ ~discard(row)
             /\ \/ NumericValued(row, cleaned.headers, types) # {}
                \/ \A j \in 1..Len(cleaned.headers) : ~IsMissing(row.cells[j])
           candidates == SelectSeq(cleaned.rows, candidate)
       IN [status |-> "ok",
           accepted |->
             [headers |-> cleaned.headers,
              rows |-> [i \in 1..Len(candidates) |->
                          Impute(candidates[i], cleaned.headers, types)]],
           discarded |->
             [headers |-> cleaned.headers,
              rows |-> SelectSeq(cleaned.rows, discard)]]

\* reconcile(original, cleaned): classify the cleaned dataset, split its rows
\* and impute the accepted ones.  It fails when there are no headers.
reconcile(original, cleaned) ==
  IF Len(cleaned.headers) = 0
  THEN [status |-> "IncompatibleSchema",
        accepted |-> [headers |-> << >>, rows |-> << >>],
        discarded |-> [headers |-> << >>, rows |-> << >>]]
  ELSE LET types == classify(cleaned)
           discard(row) == HasNullCategorical(row, cleaned.headers, types)
           candidate(row) == ~discard(row)
           candidates == SelectSeq(cleaned.rows, candidate)
       IN [status |-> "ok",
           accepted |->
             [headers |-> cleaned.headers,
              rows |-> [i \in 1..Len(candidates) |->
                          Impute(candidates[i], cleaned.headers, types)]],
           discarded |->
             [headers |-> cleaned.headers,
              rows |-> SelectSeq(cleaned.rows, discard)]]

\* The original dataset is kept for display only.
ReconcileInputs ==
  { [fn |-> "reconcile", original |-> c, cleaned |-> c] : c \in Datasets }

InitReconcile ==
  /\ NoPage
  /\ input \in ReconcileInputs
  /\ output = NoOutput

Apply_classify ==
  /\ output = NoOutput
  /\ output' = [fn |-> "classify", types |-> classify(input.cleaned)]
  /\ UNCHANGED << input, appVars >>

Apply_reconcile ==
  /\ output = NoOutput
  /\ output' = [fn |-> "reconcile",
                result |-> reconcile(input.original, input.cleaned)]
  /\ UNCHANGED << input, appVars >>

NextReconcile ==
  \/ Apply_classify
  \/ Apply_reconcile

SpecReconcile == InitReconcile /\ [][NextReconcile]_vars

\* reconcile has returned a result for the cleaned dataset.
Reconciled == output.fn = "reconcile" /\ output.result.status = "ok"

CleanedRows == input.cleaned.rows
CleanedHeaders == input.cleaned.headers
AcceptedRows == output.result.accepted.rows
DiscardedRows == output.result.discarded.rows

\* The types inferred from the cleaned dataset itself.
InferredType(j) == classify(input.cleaned)[CleanedHeaders[j]]

\* Number of times cleaned row i occurs in a partition.
Occurrences(rows, i) == Cardinality({ k \in 1..Len(rows) : rows[k].idx = i })

\* C17: reconcile puts every row of the cleaned dataset in exactly one of
\* accepted and discarded, so the two lengths add up to the number of rows.
C17_PartitionTotal ==
  Reconciled =>
    /\ Len(AcceptedRows) + Len(DiscardedRows) = Len(CleanedRows)
    /\ \A i \in 1..Len(CleanedRows) :
         Occurrences(AcceptedRows, i) + Occurrences(DiscardedRows, i) = 1

\* A dataset of which one row is accepted and one is discarded.
C17_BothPartitions ==
  /\ Reconciled
  /\ Len(AcceptedRows) > 0
  /\ Len(DiscardedRows) > 0

\* C18: a cleaned row is discarded if and only if one of its values in a
\* categorical column is null or empty; a null in a numeric column alone
\* does not discard it.
C18_DiscardedIffNullCategorical ==
  Reconciled =>
    \A i \in 1..Len(CleanedRows) :
      Occurrences(DiscardedRows, i) > 0
        <=> \E j \in 1..Len(CleanedHeaders) :
              /\ InferredType(j) = "categorical"
              /\ IsMissing(CleanedRows[i].cells[j])

\* A row with a null in a numeric column is accepted while another row,
\* with a null in a categorical column, is discarded.
C18_NumericNullKept ==
  /\ Reconciled
  /\ Len(DiscardedRows) > 0
  /\ \E k \in 1..Len(AcceptedRows) : \E j \in 1..Len(CleanedHeaders) :
       /\ InferredType(j) = "numeric"
       /\ IsMissing(CleanedRows[AcceptedRows[k].idx].cells[j])

\* The numeric columns of cleaned row i that hold a number.
Numbers(i) ==
  { j \in 1..Len(CleanedHeaders) :
      /\ InferredType(j) = "numeric"
      /\ ~IsMissing(CleanedRows[i].cells[j])
      /\ ParsesNumeric(CleanedRows[i].cells[j]) }

\* v is a number of 2 decimals, and no number of 2 decimals is nearer to
\* sum / count.
IsMeanTo2Decimals(v, sum, count) ==
  /\ v.t = "num"
  /\ v.n % 10 = 0
  /\ 2 * (count * v.n - sum) <= 10 * count
  /\ 2 * (sum - count * v.n) <= 10 * count

\* C19: in every accepted row, each null of a numeric column is filled with
\* the mean of the row's own numbers rounded to 2 decimals, unless the row
\* holds no number; every other value is left as it was.
C19_RowMeanImputed ==
  Reconciled =>
    \A k \in 1..Len(AcceptedRows) :
      LET i == AcceptedRows[k].idx
      IN \A j \in 1..Len(CleanedHeaders) :
           IF /\ InferredType(j) = "numeric"
              /\ IsMissing(CleanedRows[i].cells[j])
              /\ Numbers(i) # {}
           THEN IsMeanTo2Decimals(AcceptedRows[k].cells[j],
                                  SumValues(CleanedRows[i], Numbers(i)),
                                  Cardinality(Numbers(i)))
           ELSE AcceptedRows[k].cells[j] = CleanedRows[i].cells[j]

\* An accepted row whose null was filled with the mean of two numbers of the
\* row, the mean having more than 2 decimals.
C19_MeanRounded ==
  /\ Reconciled
  /\ \E k \in 1..Len(AcceptedRows) : \E j \in 1..Len(CleanedHeaders) :
       LET i == AcceptedRows[k].idx
       IN /\ InferredType(j) = "numeric"
          /\ IsMissing(CleanedRows[i].cells[j])
          /\ Cardinality(Numbers(i)) = 2
          /\ AcceptedRows[k].cells[j].t = "num"
          /\ Cardinality(Numbers(i)) * AcceptedRows[k].cells[j].n
               # SumValues(CleanedRows[i], Numbers(i))

\* The rows in which column j of the classified dataset has a value.
Present(j) ==
  { i \in 1..Len(CleanedRows) : ~IsMissing(CleanedRows[i].cells[j]) }

\* C20: classify returns a type for every header: categorical for a column
\* that is null in every row, otherwise numeric or categorical as the value
\* of the first row holding one parses as a numeric literal or not; which
\* makes the result a function of the dataset content.
C20_FirstNonNullDecides ==
  output.fn = "classify" =>
    /\ DOMAIN output.types =
         { CleanedHeaders[j] : j \in 1..Len(CleanedHeaders) }
    /\ \A j \in 1..Len(CleanedHeaders) :
         output.types[CleanedHeaders[j]] =
           IF Present(j) = {} THEN "categorical"
           ELSE LET first == CHOOSE i \in Present(j) :
                               \A k \in Present(j) : i <= k
                IN IF ParsesNumeric(CleanedRows[first].cells[j])
                   THEN "numeric" ELSE "categorical"

\* A dataset with a column typed numeric by its second row, the first
\* being null, a column typed categorical by its first row although the
\* second holds a number, and a column that is null in every row.
C20_SecondRowSampled ==
  /\ output.fn = "classify"
  /\ Len(CleanedRows) = 2
  /\ \E j \in 1..Len(CleanedHeaders) :
       /\ Present(j) = {2}
       /\ output.types[CleanedHeaders[j]] = "numeric"
  /\ \E j \in 1..Len(CleanedHeaders) :
       /\ Present(j) = {1, 2}
       /\ ParsesNumeric(CleanedRows[2].cells[j])
       /\ output.types[CleanedHeaders[j]] = "categorical"
  /\ \E j \in 1..Len(CleanedHeaders) :
       /\ Present(j) = {}
       /\ output.types[CleanedHeaders[j]] = "categorical"

\* C21: reconcile fails with IncompatibleSchema when the cleaned dataset has
\* no headers; with headers and no rows it returns an empty accepted and an
\* empty discarded set and no error.
C21_FailureConditions ==
  output.fn = "reconcile" =>
    /\ Len(CleanedHeaders) = 0 => output.result.status = "IncompatibleSchema"
    /\ (Len(CleanedHeaders) > 0 /\ Len(CleanedRows) = 0) =>
         /\ output.result.status = "ok"
         /\ AcceptedRows = << >>
         /\ DiscardedRows = << >>

\* reconcile has failed on a dataset that has rows and no headers.
C21_NoHeadersFails ==
  /\ output.fn = "reconcile"
  /\ Len(CleanedHeaders) = 0
  /\ Len(CleanedRows) > 0
  /\ output.result.status = "IncompatibleSchema"

\* ============================================================ empty dataset
\* The response handled last is a success that returned zero rows.
EmptyPageReturned ==
  /\ Responded({"ok"})
  /\ Len(StoreRows(last.file, last.page)) = 0

\* C22: a successful page fetch that returns zero rows ends in Ready, with
\* an empty table or the empty-state message, and no error stored.
C22_EmptyPageIsReady ==
  EmptyPageReturned => (~Loading /\ Error = NULL /\ Rows = << >>)

\* ===================================================== fetch and the filter
\* C24: in ViewData a successful page fetch makes the visible rows the
\* complete new page and leaves the search text as it is; the visible rows
\* differ from the page again only through an explicit search.
C24_FetchResetsFilter ==
  [][/\ (view = "ViewData" /\ Responded({"ok"})') =>
          /\ filteredData' = StoreRows(last'.file, last'.page)
          /\ filteredData' = data'
          /\ searchTerm' = searchTerm
     /\ (view = "ViewData" /\ filteredData = data /\ filteredData' # data') =>
          last'.act = "search"]_vars

\* A page has arrived while a search text is set that would hide some of
\* its rows, and all of its rows are visible.
C24_NewPageUnfiltered ==
  /\ view = "ViewData"
  /\ Responded({"ok"})
  /\ Trim(searchTerm) # << >>
  /\ VD_filtered(data, searchTerm) # data
  /\ filteredData = data
  /\ Len(data) > 0

\* ========================================================= full-data modal
\* C25: closing the modal clears the materialized rows and resets
\* current_page to 1, and every opening of the modal issues a fetch of
\* page 1, so the rows of a fetch issued during an earlier opening are never
\* shown after a reopen without a new fetch.
C25_ReopenFetchesPageOne ==
  [][/\ last'.act = "close" =>
          (fullData' = << >> /\ fullDataPagination'.current_page = 1)
     /\ (view = "CleanData" /\ last'.act = "open") =>
          /\ last'.id # 0 /\ last'.page = 1
          /\ isLoadingFullData'
          /\ RenderedRows' = << >>]_vars

\* C26: in the modal at most one paginated fetch is in flight at any time:
\* no sequence of open, close and page clicks starts a fetch before the
\* previous one has resolved.
C26_OneFetchInFlight ==
  view = "CleanData" => Cardinality(fetches) <= 1

\* ===================================================== active file name
\* The CSV-info load handled last has succeeded.
CsvInfoLoaded == last.act = "csv" /\ last.outcome = "ok"

\* C27: after a successful load cleanedFileName is set exactly when the
\* file name starts with "cleaned_", localStorage agrees with it, and the
\* file the next mount picks is the file just loaded.
C27_BookkeepingAgrees ==
  CsvInfoLoaded =>
    /\ cleanedFileName # NULL <=> StartsWithCleaned(currentFileName)
    /\ IF StartsWithCleaned(currentFileName)
       THEN /\ cleanedFileName = currentFileName
            /\ localStorage.cleanedFileName = currentFileName
       ELSE /\ localStorage.cleanedFileName = NULL
            /\ localStorage.uploadedFileName = currentFileName
    /\ FileNameToLoad(localStorage) = currentFileName

\* The cleaned file was asked for and the store answered with the raw file:
\* the cleanedFileName key is gone.
C27_FallbackToRaw ==
  /\ CsvInfoLoaded
  /\ last.file = CleanedFile
  /\ currentFileName = RawFile
  /\ localStorage.cleanedFileName = NULL

\* ============================================================== LoadData
\* handleProcessData of the upload page, in its three revisions: the first
\* and the second handler of LoadData.tsx and the handler of part_002.
LoadDataRevisions == {"LoadData.first", "part_002", "LoadData.second"}

OtherFile == "other.csv"

\* Files the user can have picked for upload.
UploadNames == {RawFile, OtherFile}

\* localStorage as earlier uploads and cleanings can have left it.
EarlierStorage ==
  [cleanedFileName : {NULL, CleanedFile},
   uploadedFileName : {NULL, RawFile, OtherFile}]

\* The page state before the button is pressed.
LoadDataIdle == [fn |-> "LoadData", isProcessing |-> FALSE,
                 upload |-> NULL, navigating |-> FALSE]

InitUpload ==
  /\ view = "LoadData"
  /\ mounted = FALSE
  /\ filename = NULL
  /\ data = << >>
  /\ filteredData = << >>
  /\ headers = << >>
  /\ pagination = EmptyPagination
  /\ loading = TRUE
  /\ error = NULL
  /\ isLoadingInitialData = TRUE
  /\ isLoadingFullData = FALSE
  /\ currentFileName = NULL
  /\ cleanedFileName = NULL
  /\ fullData = << >>
  /\ fullDataHeaders = << >>
  /\ fullDataPagination = InitialFullDataPagination
  /\ fullDataError = NULL
  /\ isFullDataModalOpen = FALSE
  /\ localStorage \in EarlierStorage
  /\ csvFetch = NULL
  /\ previewData = << >>
  /\ isLoadingDetails = FALSE
  /\ detailedStats = NoDetail
  /\ deletedData = NoDetail
  /\ nullData = NoDetail
  /\ detailFetches = [k \in DetailKinds |-> "none"]
  /\ searchTerm = << >>
  /\ fetches = {}
  /\ issued = 0
  /\ latest = NoFetch
  /\ dataId = 0
  /\ visited = {}
  /\ last = NoStep
  /\ input \in [fn : {"LoadData"}, revision : LoadDataRevisions,
                uploadedFile : UploadNames]
  /\ output = LoadDataIdle

\* The description of the toast of the catch block: error.message.
LD_ErrorMessage(revision, outcome) ==
  CASE outcome = "http_detail" ->
         IF revision = "LoadData.first" THEN "Error al subir el archivo"
         ELSE "detail"
    [] outcome = "http_plain" -> "Error al subir el archivo"
    [] outcome = "bad_body" -> "Unexpected token"
    [] OTHER -> "Failed to fetch"

\* The localStorage writes of the success path.  The first revision only
\* sets uploadedFileName; the later ones also remove cleanedFileName (the
\* uploadedFileId key of the second LoadData.tsx handler is not read by the
\* file choice and is left out).
LD_Store(revision, storage, resultFilename) ==
  IF revision = "LoadData.first"
  THEN [storage EXCEPT !.uploadedFileName = resultFilename]
  ELSE [cleanedFileName |-> NULL, uploadedFileName |-> resultFilename]

\* handleProcessData up to the await; the button is disabled without a file
\* and while processing.
LD_handleProcessData ==
  /\ view = "LoadData"
  /\ input.uploadedFile # NULL /\ ~output.isProcessing
  /\ output' = [output EXCEPT !.isProcessing = TRUE,
                              !.upload = input.uploadedFile]
  /\ last' = Step("upload", 0, input.uploadedFile, 0)
  /\ UNCHANGED << view, mounted, vdVars, cdPageVars, cdInfoVars,
                  isFullDataModalOpen, previewData, cdDetailVars, searchTerm,
                  netVars, dataId, visited, input >>

\* handleProcessData after the await: POST upload-csv has resolved.
LD_UploadResponse(outcome) ==
  /\ view = "LoadData"
  /\ output.upload # NULL
  /\ IF outcome = "ok"
     THEN /\ localStorage' =
               LD_Store(input.revision, localStorage, output.upload)
          /\ output' = [output EXCEPT !.isProcessing = FALSE,
                                      !.upload = NULL,
                                      !.navigating = TRUE]
          /\ last' = [Step("uploaded", 0, output.upload, 0) EXCEPT
                        !.outcome = outcome,
                        !.toast = "Archivo subido exitosamente"]
     ELSE /\ localStorage' = localStorage
          /\ output' = [output EXCEPT !.isProcessing = FALSE,
                                      !.upload = NULL]
          /\ last' = [Step("uploaded", 0, output.upload, 0) EXCEPT
                        !.outcome = outcome,
                        !.toast = LD_ErrorMessage(input.revision, outcome)]
  /\ UNCHANGED << view, mounted, vdVars, cdPageVars, isLoadingInitialData,
                  currentFileName, cleanedFileName, csvFetch,
                  isFullDataModalOpen, previewData, cdDetailVars, searchTerm,
                  netVars, dataId, visited, input >>

\* setTimeout(() => navigate('/clean-data'), 1000) fires.
LD_Navigate ==
  /\ view = "LoadData"
  /\ output.navigating
  /\ view' = "CleanData"
  /\ output' = [output EXCEPT !.navigating = FALSE]
  /\ last' = Step("navigate", 0, NULL, 0)
  /\ UNCHANGED << mounted, vdVars, cdPageVars, cdInfoVars,
                  isFullDataModalOpen, previewData, cdDetailVars, searchTerm,
                  netVars, dataId, visited, input >>

NextUpload ==
  \/ LD_handleProcessData
  \/ \E outcome \in Outcomes : LD_UploadResponse(outcome)
  \/ LD_Navigate
  \/ CD_Mount

SpecUpload == InitUpload /\ [][NextUpload]_vars

\* The upload handled last has succeeded.
Uploaded == last.act = "uploaded" /\ last.outcome = "ok"

\* C28: after a successful upload the file the next page loads is the
\* uploaded file and no cleanedFileName is left; a failed upload leaves
\* localStorage unchanged.
C28_UploadSelectsNewFile ==
  [][/\ (last'.act = "uploaded" /\ last'.outcome = "ok") =>
          /\ localStorage'.uploadedFileName = last'.file
          /\ localStorage'.cleanedFileName = NULL
          /\ FileNameToLoad(localStorage') = last'.file
     /\ (last'.act = "uploaded" /\ last'.outcome # "ok") =>
          localStorage' = localStorage
     /\ (view = "CleanData" /\ last'.act = "mount") =>
          csvFetch' = localStorage.uploadedFileName]_vars

\* ================================================================ footer
\* "Fila <first> a <last> de <total_rows>" under the table.  ViewData (and
\* the ViewData of part_003) starts the range at offset + 1; the modal of
\* CleanData starts it at offset + (fullData.length > 0 ? 1 : 0).
VD_FooterFirst ==
  (pagination.current_page - 1) * pagination.page_size + 1

VD_FooterLast ==
  Min(pagination.current_page * pagination.page_size, pagination.total_rows)

CD_FooterFirst ==
  (fullDataPagination.current_page - 1) * fullDataPagination.page_size
    + (IF Len(fullData) > 0 THEN 1 ELSE 0)

CD_FooterLast ==
  Min(fullDataPagination.current_page * fullDataPagination.page_size,
      fullDataPagination.total_rows)

FooterFirst == IF view = "ViewData" THEN VD_FooterFirst ELSE CD_FooterFirst
FooterLast == IF view = "ViewData" THEN VD_FooterLast ELSE CD_FooterLast
FooterTotal ==
  IF view = "ViewData" THEN pagination.total_rows
  ELSE fullDataPagination.total_rows

\* The footer is on screen under a page that has been fetched.
FooterOfPage ==
  /\ mounted /\ dataId # 0
  /\ ~Loading /\ Error = NULL
  /\ view = "CleanData" => isFullDataModalOpen

\* C29: the footer range satisfies first <= last <= total_rows and spans as
\* many rows as the page holds; for an empty dataset the first row shown is
\* not greater than the last.
C29_FooterRange ==
  FooterOfPage =>
    IF FooterTotal > 0
    THEN /\ FooterFirst <= FooterLast
         /\ FooterLast <= FooterTotal
         /\ FooterLast - FooterFirst + 1 = Len(Rows)
    ELSE FooterFirst <= FooterLast

\* =============================================================== liveness
\* The store answers every request, or the transport fails: a response that
\* is pending is eventually handled.
PageResponse ==
  \/ \E r \in fetches, o \in Outcomes : VD_Response(r, o)
  \/ \E r \in fetches, o \in Outcomes : CD_Response(r, o)

CsvInfoResponse ==
  \E o \in Outcomes, a \in Files \cup {NULL} : CD_fetchCsvInfoResolve(o, a)

\* The steps that start and finish loading: mounts, page changes, the modal
\* and the responses.
NextLoading ==
  \/ VD_Mount
  \/ \E f \in Files : VD_FilenameChange(f)
  \/ \E b \in Buttons : VD_PageClick(b)
  \/ \E r \in fetches, o \in Outcomes : VD_Response(r, o)
  \/ CD_Mount
  \/ \E o \in Outcomes, a \in Files \cup {NULL} : CD_fetchCsvInfoResolve(o, a)
  \/ CD_OpenModal
  \/ CD_CloseModal
  \/ \E b \in Buttons : CD_PageClick(b)
  \/ \E r \in fetches, o \in Outcomes : CD_Response(r, o)

\* Page fetches issued in a run of the liveness specification.
MaxLiveFetches == 3

CappedLoading == NextLoading /\ issued' <= MaxLiveFetches

SpecLive ==
  /\ Init /\ [][CappedLoading]_vars
  /\ WF_vars(PageResponse) /\ WF_vars(CsvInfoResponse)

\* No request of the page is in flight and none of its loading flags is set.
Settled ==
  /\ fetches = {} /\ ~Loading
  /\ view = "CleanData" => (csvFetch = NULL /\ ~isLoadingInitialData)

\* C30: whenever a fetch is in flight, the page eventually has no fetch in
\* flight and is not loading.
C30_LoadingEnds ==
  (fetches # {} \/ csvFetch # NULL) ~> Settled

\* The last fetch in flight has failed on a body that cannot be parsed and
\* the page is not loading.
C30_SettledAfterBadBody ==
  /\ Responded({"bad_body"})
  /\ issued > 1
  /\ Settled

====
